---- MODULE Spec2Model ----
(***************************************************************************)
(* Model of the curatorgame rhythm core: the App component (scoring,      *)
(* session status) and the GameScene frame callback (spawn scheduler and   *)
(* judgement loop).                                                        *)
(*                                                                         *)
(* Units.  Time is counted in 1/12 s, lengths in tenths of a world unit,   *)
(* velocities in tenths per second.  With these units every constant of    *)
(* the program is an integer: NOTE_SPEED 12 units/s is 10 tenths per time  *)
(* unit, the hit radius 0.8 is 8, the speed threshold 1.5 is 15.           *)
(*                                                                         *)
(* React.  State setters called from the frame callback are batched: the   *)
(* calls are queued per hook and the queues are processed, in hook order   *)
(* (score, combo, multiplier, health), by the render that follows the      *)
(* frame.  An updater function runs when its queue is processed, except    *)
(* that React may run the first updater of a batch eagerly at call time.   *)
(* A frame and the render that commits it are one step of the model.       *)
(***************************************************************************)
EXTENDS Integers, Sequences, FiniteSets, TLC

\* ---------------------------------------------------------------- bounds
SongLength == 52       \* duration of the track, in time units
MaxDelta == 2          \* largest clock advance between two frames
MaxFrames == 3         \* frames a session of a scoring run delivers
MaxPerFrame == 4       \* judgement events one frame of a scoring run delivers
GateClockMax == 740    \* latest clock of a run over the gates, in time units

\* ------------------------------------------------------ program constants
SPAWN_Z == -400
PLAYER_Z == 0
MISS_Z == 50
NOTE_SPEED == 10
LANE_WIDTH == 8

LANE_X_POSITIONS == <<(-3 * LANE_WIDTH) \div 2, (-1 * LANE_WIDTH) \div 2, (1 * LANE_WIDTH) \div 2, (3 * LANE_WIDTH) \div 2>>
LAYER_Y_POSITIONS == <<8, 16, 24>>

ANY == 4
UP == 0
DOWN == 1
LEFT == 2
RIGHT == 3

DIRECTION_VECTORS(d) ==
  CASE d = UP -> <<0, 1, 0>>
    [] d = DOWN -> <<0, -1, 0>>
    [] d = LEFT -> <<-1, 0, 0>>
    [] d = RIGHT -> <<1, 0, 0>>
    [] OTHER -> <<0, 0, 0>>

null == <<>>
NoTime == -1

\* ------------------------------------------------------------------ chart
\* One NoteData object: the descriptor and the resolution fields.
NoteData(id, time, lineIndex, lineLayer, type, cutDirection, tier, axis) ==
  [id |-> id, time |-> time, lineIndex |-> lineIndex, lineLayer |-> lineLayer,
   type |-> type, cutDirection |-> cutDirection, tier |-> tier, axis |-> axis,
   hit |-> FALSE, missed |-> FALSE, hitTime |-> NoTime]

\* A chart of the shapes generateDemoChart produces (alternating single
\* notes, a left/right double at one time), sorted by time, with a
\* directional note at the end.
DEMO_CHART ==
  << NoteData(0, 4, 1, 0, "left", ANY, 1, "INSTITUTION"),
     NoteData(1, 10, 2, 0, "right", ANY, 3, "INSTITUTION"),
     NoteData(2, 14, 0, 1, "left", ANY, 2, "ACADEMIC"),
     NoteData(3, 14, 3, 1, "right", ANY, 2, "ACADEMIC"),
     NoteData(4, 20, 3, 2, "right", ANY, 3, "DISCOURSE"),
     NoteData(5, 24, 0, 2, "left", ANY, 3, "DISCOURSE"),
     NoteData(6, 44, 1, 0, "left", UP, 2, "NETWORK") >>

\* A chart passed to GameScene in which notes of one hand share a target or
\* follow each other on it within the hit window, sorted by time.
TIE_CHART ==
  << NoteData(0, 4, 1, 0, "left", ANY, 1, "INSTITUTION"),
     NoteData(1, 4, 1, 0, "left", ANY, 3, "INSTITUTION"),
     NoteData(2, 5, 1, 0, "left", ANY, 3, "INSTITUTION"),
     NoteData(3, 10, 2, 0, "right", ANY, 2, "ACADEMIC"),
     NoteData(4, 10, 2, 0, "right", ANY, 2, "ACADEMIC"),
     NoteData(5, 14, 1, 0, "left", ANY, 3, "DISCOURSE"),
     NoteData(6, 14, 1, 0, "left", UP, 3, "DISCOURSE") >>

\* A chart passed to GameScene that goes on after the seventh note: a note
\* is still in flight when the seventh miss ends the session.
LONG_CHART ==
  DEMO_CHART \o << NoteData(7, 46, 2, 0, "right", ANY, 3, "NETWORK") >>

\* ------------------------------------------------------------------ gates
GateData(id, time, label, type) == [id |-> id, time |-> time, label |-> label, type |-> type]

\* GATES: three gates at 12 s, 34 s and 56 s each.
GATES ==
  << GateData(1, 12 * 12, "SCANDAL", "NEGATIVE"),
     GateData(2, 12 * 12, "ELITE COURSE", "POSITIVE"),
     GateData(3, 12 * 12, "DISCOVERY", "POSITIVE"),
     GateData(4, 34 * 12, "EXPULSION", "NEGATIVE"),
     GateData(5, 34 * 12, "ACCLAIM", "POSITIVE"),
     GateData(6, 34 * 12, "TERMINATION", "NEGATIVE"),
     GateData(7, 56 * 12, "HIATUS", "NEUTRAL"),
     GateData(8, 56 * 12, "MUSEUM", "POSITIVE"),
     GateData(9, 56 * 12, "BIENNALE", "POSITIVE") >>

\* The filter test of visibleGates: (g.time - currentTime) < 10 && (g.time - currentTime) > -5
GateShown(g, time) == (g.time - time) < 10 * 12 /\ (g.time - time) > -(5 * 12)

\* Variant of the filter that keeps a gate at both ends of its window.
visibleGatesClosed(time) ==
  SelectSeq(GATES, LAMBDA g : (g.time - time) <= 10 * 12 /\ (g.time - time) >= -(5 * 12))

\* GATES.filter(...) of the visibleGates memo, for the scene clock time.
visibleGates(time) == SelectSeq(GATES, LAMBDA g : GateShown(g, time))

\* ------------------------------------------------------------ hand samples
Vec(x, y, z) == <<x, y, z>>

HandSample(left, leftVelocity, right, rightVelocity) ==
  [left |-> left, right |-> right, leftVelocity |-> leftVelocity, rightVelocity |-> rightVelocity]

\* The snapshots handPositionsRef.current can hold when a frame reads it:
\* no hand, one hand (on a target of its own side, on a target of the other
\* side, one lane off, slow, fast, along or across the required direction),
\* both hands, one hand behind the player where an expired note passes,
\* the hands just outside the two ends of the hit window.
HandPositions ==
  { HandSample(null, Vec(0, 0, 0), null, Vec(0, 0, 0)),
    HandSample(Vec(-4, 8, 65), Vec(0, 20, 0), null, Vec(0, 0, 0)),
    HandSample(Vec(-4, 8, 15), Vec(0, 20, 0), Vec(4, 8, -20), Vec(0, 20, 0)),
    HandSample(Vec(-4, 8, 0), Vec(0, 20, 0), null, Vec(0, 0, 0)),
    HandSample(Vec(-4, 8, -5), Vec(20, 0, 0), null, Vec(0, 0, 0)),
    HandSample(Vec(-12, 16, 0), Vec(0, 12, 9), null, Vec(0, 0, 0)),
    HandSample(Vec(4, 8, 0), Vec(0, 20, 0), null, Vec(0, 0, 0)),
    HandSample(null, Vec(0, 0, 0), Vec(4, 8, 0), Vec(0, 0, 0)),
    HandSample(null, Vec(0, 0, 0), Vec(12, 16, 0), Vec(0, 20, 0)),
    HandSample(null, Vec(0, 0, 0), Vec(-4, 8, 0), Vec(0, 20, 0)),
    HandSample(Vec(-12, 16, 0), Vec(0, 10, 0), Vec(12, 16, 0), Vec(0, 20, 0)),
    HandSample(Vec(-4, 8, 0), Vec(0, 20, 0), Vec(4, 8, 0), Vec(0, 20, 0)) }

VARIABLES
  gameStatus, score, combo, multiplier, health,   \* App state
  isCameraReady,                                  \* useMediaPipe
  pendingEnd,                                     \* queued setTimeout(endGame(false))
  audioTime, audioEnded, audioPaused,             \* audioRef.current
  chart,                                          \* the NoteData objects
  activeNotes, nextNoteIndex, currentTime,        \* GameScene refs and state
  events,                                         \* calls of onNoteHit/onNoteMiss/onSongEnd made by the last frame
  judged,                                         \* judgement events per note since the last chart reset
  lossCount,                                      \* endGame(false) calls since the last startGame
  lastNow,                                        \* clock read by the previous playing frame of the session
  sameNow,                                        \* the last playing frame read the same clock as the one before it
  maxNow,                                         \* largest clock a playing frame has read since the scene was mounted
  frames                                          \* frames delivered to App since the last startGame (scoring runs)

vars == <<gameStatus, score, combo, multiplier, health, isCameraReady, pendingEnd,
          audioTime, audioEnded, audioPaused, chart, activeNotes, nextNoteIndex,
          currentTime, events, judged, lossCount, lastNow, sameNow, maxNow, frames>>

appVars == <<gameStatus, score, combo, multiplier, health, pendingEnd, lossCount>>
audioVars == <<audioTime, audioEnded, audioPaused>>
sceneVars == <<chart, activeNotes, nextNoteIndex, currentTime, events, judged, lastNow, sameNow, maxNow>>

NoteIds == 1..Len(DEMO_CHART)

Init ==
  /\ gameStatus = "LOADING"
  /\ score = 0
  /\ combo = 0
  /\ multiplier = 1
  /\ health = 100
  /\ isCameraReady = FALSE
  /\ pendingEnd = 0
  /\ audioTime = 0
  /\ audioEnded = FALSE
  /\ audioPaused = TRUE
  /\ chart = DEMO_CHART
  /\ activeNotes = <<>>
  /\ nextNoteIndex = 0
  /\ currentTime = 0
  /\ events = <<>>
  /\ judged = [i \in NoteIds |-> 0]
  /\ lossCount = 0
  /\ lastNow = NoTime
  /\ sameNow = FALSE
  /\ maxNow = NoTime
  /\ frames = 0

\* ------------------------------------------------------------ App: scoring
\* handleNoteHit, lines 278-281: the multiplier chosen for a new combo.
MultiplierFor(newCombo) ==
  IF newCombo > 30 THEN 8
  ELSE IF newCombo > 20 THEN 4
  ELSE IF newCombo > 10 THEN 2
  ELSE 1

\* The setter calls of one frame that the next render has still to process,
\* one queue per hook.
EmptyQueue == [score |-> <<>>, combo |-> <<>>, multiplier |-> <<>>, health |-> <<>>]

\* handleNoteHit(note, goodCut), called while q is queued; note is the
\* position of the note in the chart (0: no note of the chart) and is not
\* read.  The closure reads the multiplier of the last render.
\* setCombo is given an updater: when it
\* is the first update of the batch and React evaluates it eagerly, the
\* updater runs now (against the rendered combo) and its setMultiplier call
\* is queued now; otherwise the updater is left for the render.
handleNoteHit(q, note, goodCut, eager) ==
  LET points == IF goodCut THEN 100 + 50 ELSE 100
      runsNow == eager /\ q = EmptyQueue
  IN [score |-> Append(q.score, points * multiplier),
      combo |-> Append(q.combo, IF runsNow THEN [op |-> "set", value |-> combo + 1]
                                           ELSE [op |-> "updater", value |-> 0]),
      multiplier |-> IF runsNow THEN Append(q.multiplier, MultiplierFor(combo + 1))
                                ELSE q.multiplier,
      health |-> Append(q.health, "hit")]

\* Variant of handleNoteMiss that also takes 50 points off the score.
handleNoteMissPenalty(q) ==
  [score |-> Append(q.score, -50),
   combo |-> Append(q.combo, [op |-> "set", value |-> 0]),
   multiplier |-> Append(q.multiplier, 1),
   health |-> Append(q.health, "miss")]

\* handleNoteMiss(note): setCombo(0), setMultiplier(1), setHealth(updater).
handleNoteMiss(q) ==
  [score |-> q.score,
   combo |-> Append(q.combo, [op |-> "set", value |-> 0]),
   multiplier |-> Append(q.multiplier, 1),
   health |-> Append(q.health, "miss")]

\* The setter calls of a frame that emitted the judgement events evs, in order.
RECURSIVE QueueEvents(_, _, _)
QueueEvents(q, evs, eager) ==
  IF evs = <<>> THEN q
  ELSE LET e == Head(evs)
           q1 == IF e.kind = "Hit" THEN handleNoteHit(q, e.note, e.goodCut, eager)
                 ELSE handleNoteMiss(q)
       IN QueueEvents(q1, Tail(evs), eager)

\* Render of the score hook: s => s + points * multiplier, in order.
RECURSIVE RenderScore(_, _)
RenderScore(s, updates) ==
  IF updates = <<>> THEN s ELSE RenderScore(s + Head(updates), Tail(updates))

\* Render of the combo hook.  An updater left for the render computes
\* c + 1 and calls setMultiplier during the render: that call is appended
\* to the multiplier queue, behind the calls queued by the frame.
RECURSIVE RenderCombo(_, _, _)
RenderCombo(c, updates, multQueue) ==
  IF updates = <<>> THEN [combo |-> c, multiplier |-> multQueue]
  ELSE LET u == Head(updates)
       IN IF u.op = "set" THEN RenderCombo(u.value, Tail(updates), multQueue)
          ELSE RenderCombo(c + 1, Tail(updates), Append(multQueue, MultiplierFor(c + 1)))

\* Render of the multiplier hook: the last queued value wins.
RenderMultiplier(m, updates) ==
  IF updates = <<>> THEN m ELSE updates[Len(updates)]

\* setHealth(h => Math.min(100, h + 2)) of handleNoteHit.
HealthAfterHit(h) == IF h + 2 < 100 THEN h + 2 ELSE 100

\* Variant of the miss updater that returns newHealth without the floor.
HealthAfterMissNoFloor(h) == h - 15

\* The setHealth updater of handleNoteMiss; a result <= 0 queues endGame(false).
HealthAfterMiss(h) == IF h - 15 <= 0 THEN 0 ELSE h - 15

\* Render of the health hook: the new health and the number of
\* setTimeout(() => endGame(false), 0) calls made by the updaters.
RECURSIVE RenderHealth(_, _, _)
RenderHealth(h, updates, timers) ==
  IF updates = <<>> THEN [health |-> h, timers |-> timers]
  ELSE IF Head(updates) = "hit"
       THEN RenderHealth(HealthAfterHit(h), Tail(updates), timers)
       ELSE RenderHealth(HealthAfterMiss(h), Tail(updates),
                         IF h - 15 <= 0 THEN timers + 1 ELSE timers)

\* The App render that commits the setter calls of one frame.
Render(q) ==
  LET c == RenderCombo(combo, q.combo, q.multiplier)
      h == RenderHealth(health, q.health, 0)
  IN /\ score' = RenderScore(score, q.score)
     /\ combo' = c.combo
     /\ multiplier' = RenderMultiplier(multiplier, c.multiplier)
     /\ health' = h.health
     /\ pendingEnd' = pendingEnd + h.timers

\* Variant of endGame that ignores its argument.
endGameAlwaysLost(victory) ==
  /\ gameStatus' = "GAME_OVER"
  /\ audioPaused' = TRUE

\* endGame(victory): the status is set and the audio is paused.
endGame(victory) ==
  /\ gameStatus' = IF victory THEN "VICTORY" ELSE "GAME_OVER"
  /\ audioPaused' = TRUE


\* ------------------------------------------------------- GameScene: frame
\* const spawnAheadTime = Math.abs(SPAWN_Z - PLAYER_Z) / NOTE_SPEED
Abs(x) == IF x < 0 THEN -x ELSE x
spawnAheadTime == Abs(SPAWN_Z - PLAYER_Z) \div NOTE_SPEED

\* Variants of the spawn loop: strict compares with < instead of <=, once
\* runs the body as an if instead of a while.
RECURSIVE SpawnVariant(_, _, _, _, _, _)
SpawnVariant(notes, active, next, time, strict, once) ==
  LET due == IF strict THEN notes[next + 1].time - spawnAheadTime < time
                       ELSE notes[next + 1].time - spawnAheadTime <= time
  IN IF next < Len(notes) /\ due
     THEN IF once THEN [active |-> Append(active, next + 1), next |-> next + 1]
          ELSE SpawnVariant(notes, Append(active, next + 1), next + 1, time, strict, once)
     ELSE [active |-> active, next |-> next]

\* Variant: the loop runs on a copy of the cursor and the ref is not written back.
SpawnCursorLost(notes, active, next, time) ==
  [active |-> SpawnVariant(notes, active, next, time, FALSE, FALSE).active, next |-> next]

\* Variant: a note is due only after its lookahead time has passed.
SpawnStrict(notes, active, next, time) == SpawnVariant(notes, active, next, time, TRUE, FALSE)

\* Variant: at most one note is promoted per frame.
SpawnOnce(notes, active, next, time) == SpawnVariant(notes, active, next, time, FALSE, TRUE)

\* The while loop over nextNoteIndexRef: notes are pushed while the next
\* note's time minus the lookahead is not after the clock.
RECURSIVE Spawn(_, _, _, _)
Spawn(notes, active, next, time) ==
  IF next < Len(notes) /\ notes[next + 1].time - spawnAheadTime <= time
  THEN Spawn(notes, Append(active, next + 1), next + 1, time)
  ELSE [active |-> active, next |-> next]

\* const currentZ = PLAYER_Z - (timeDiff * NOTE_SPEED)
currentZ(note, time) == PLAYER_Z - ((note.time - time) * NOTE_SPEED)

\* activeNotesRef.current.splice(i, 1)
Splice(seq, i) == SubSeq(seq, 1, i - 1) \o SubSeq(seq, i + 1, Len(seq))

Dot(a, b) == a[1] * b[1] + a[2] * b[2] + a[3] * b[3]

\* handPos.distanceTo(notePos) < 0.8, compared on the squares
WithinHitRadius(handPos, notePos) ==
  LET d == Vec(handPos[1] - notePos[1], handPos[2] - notePos[2], handPos[3] - notePos[3])
  IN Dot(d, d) < 8 * 8

\* speed < 1.5, compared on the squares
TooSlow(handVel) == Dot(handVel, handVel) < 15 * 15

\* vecB.copy(handVel).normalize().dot(requiredDir) < 0.3; normalize() leaves
\* the zero vector at zero.
Misaligned(handVel, requiredDir) ==
  LET d == Dot(handVel, requiredDir)
  IN d <= 0 \/ 100 * d * d < 9 * Dot(handVel, handVel)

\* Variant of the quality test that applies the direction test to every note.
GoodCutDirectional(note, handVel) ==
  ~(Misaligned(handVel, DIRECTION_VECTORS(note.cutDirection)) \/ TooSlow(handVel))

\* Variant of the quality test that forgives a slow cut on a tier-3 note.
GoodCutByTier(note, handVel) ==
  IF note.cutDirection # ANY
  THEN ~(Misaligned(handVel, DIRECTION_VECTORS(note.cutDirection)) \/ TooSlow(handVel))
  ELSE note.tier = 3 \/ ~TooSlow(handVel)

\* Variant of the quality test that never looks at the direction.
GoodCutSpeedOnly(note, handVel) == ~TooSlow(handVel)

\* The quality test, lines 298-308.
GoodCut(note, handVel) ==
  IF note.cutDirection # ANY
  THEN ~(Misaligned(handVel, DIRECTION_VECTORS(note.cutDirection)) \/ TooSlow(handVel))
  ELSE ~TooSlow(handVel)

\* Variant of the hit window that is one world unit wider at each end.
InHitWindowWide(z) == z > PLAYER_Z - 25 /\ z < PLAYER_Z + 20

\* if (currentZ > PLAYER_Z - 1.5 && currentZ < PLAYER_Z + 1.0)
InHitWindow(z) == z > PLAYER_Z - 15 /\ z < PLAYER_Z + 10

\* Variant of the expiry branch that leaves the note in the active set.
ExpireNoteKept(st, i) ==
  LET n == st.active[i]
  IN [notes |-> [st.notes EXCEPT ![n].missed = TRUE],
      active |-> st.active,
      events |-> Append(st.events, [kind |-> "Miss", note |-> n, goodCut |-> FALSE])]

\* note.missed = true; onNoteMiss(note); splice(i, 1)
ExpireNote(st, i) ==
  LET n == st.active[i]
  IN [notes |-> [st.notes EXCEPT ![n].missed = TRUE],
      active |-> Splice(st.active, i),
      events |-> Append(st.events, [kind |-> "Miss", note |-> n, goodCut |-> FALSE])]

\* Variant of the hit branch that does not set note.hit.
HitNoteUnmarked(st, i, goodCut, time) ==
  LET n == st.active[i]
  IN [notes |-> [st.notes EXCEPT ![n].hitTime = time],
      active |-> Splice(st.active, i),
      events |-> Append(st.events, [kind |-> "Hit", note |-> n, goodCut |-> goodCut])]

\* Variant of the hit branch that leaves the note in the active set.
HitNoteKept(st, i, goodCut, time) ==
  LET n == st.active[i]
  IN [notes |-> [st.notes EXCEPT ![n].hit = TRUE, ![n].hitTime = time],
      active |-> st.active,
      events |-> Append(st.events, [kind |-> "Hit", note |-> n, goodCut |-> goodCut])]

\* note.hit = true; note.hitTime = time; handleHit(note, goodCut); splice(i, 1)
HitNote(st, i, goodCut, time) ==
  LET n == st.active[i]
  IN [notes |-> [st.notes EXCEPT ![n].hit = TRUE, ![n].hitTime = time],
      active |-> Splice(st.active, i),
      events |-> Append(st.events, [kind |-> "Hit", note |-> n, goodCut |-> goodCut])]

\* Variant of the iteration that looks for the hand before the expiry test.
JudgeNoteNeedsHand(st, i, hands, time) ==
  LET note == st.notes[st.active[i]]
      z == currentZ(note, time)
      handPos == IF note.type = "left" THEN hands.left ELSE hands.right
      handVel == IF note.type = "left" THEN hands.leftVelocity ELSE hands.rightVelocity
      notePos == Vec(LANE_X_POSITIONS[note.lineIndex + 1], LAYER_Y_POSITIONS[note.lineLayer + 1], z)
  IN IF note.hit \/ note.missed THEN st
     ELSE IF handPos = null THEN st
     ELSE IF z > MISS_Z THEN ExpireNote(st, i)
     ELSE IF InHitWindow(z) /\ WithinHitRadius(handPos, notePos)
          THEN HitNote(st, i, GoodCut(note, handVel), time)
     ELSE st

\* Variant of the iteration in which only a good cut counts as a hit.
JudgeNoteQualityGate(st, i, hands, time) ==
  LET note == st.notes[st.active[i]]
      z == currentZ(note, time)
      handPos == IF note.type = "left" THEN hands.left ELSE hands.right
      handVel == IF note.type = "left" THEN hands.leftVelocity ELSE hands.rightVelocity
      notePos == Vec(LANE_X_POSITIONS[note.lineIndex + 1], LAYER_Y_POSITIONS[note.lineLayer + 1], z)
  IN IF note.hit \/ note.missed THEN st
     ELSE IF z > MISS_Z THEN ExpireNote(st, i)
     ELSE IF InHitWindow(z) /\ handPos # null /\ WithinHitRadius(handPos, notePos)
             /\ GoodCut(note, handVel)
          THEN HitNote(st, i, TRUE, time)
     ELSE st

\* Variant of the iteration that tests the hand first, on every note that
\* has entered the hit window, and expires a note only when it is not hit.
JudgeNoteHitFirst(st, i, hands, time) ==
  LET note == st.notes[st.active[i]]
      z == currentZ(note, time)
      handPos == IF note.type = "left" THEN hands.left ELSE hands.right
      handVel == IF note.type = "left" THEN hands.leftVelocity ELSE hands.rightVelocity
      notePos == Vec(LANE_X_POSITIONS[note.lineIndex + 1], LAYER_Y_POSITIONS[note.lineLayer + 1], z)
  IN IF note.hit \/ note.missed THEN st
     ELSE IF z > PLAYER_Z - 15 /\ handPos # null /\ WithinHitRadius(handPos, notePos)
          THEN HitNote(st, i, GoodCut(note, handVel), time)
     ELSE IF z > MISS_Z THEN ExpireNote(st, i)
     ELSE st

\* Variant of the iteration that accepts the other hand when the note's own
\* hand is not on the note.
JudgeNoteAnyHand(st, i, hands, time) ==
  LET note == st.notes[st.active[i]]
      z == currentZ(note, time)
      notePos == Vec(LANE_X_POSITIONS[note.lineIndex + 1], LAYER_Y_POSITIONS[note.lineLayer + 1], z)
      own == IF note.type = "left" THEN hands.left ELSE hands.right
      other == IF note.type = "left" THEN hands.right ELSE hands.left
      ownOn == own # null /\ WithinHitRadius(own, notePos)
      otherOn == other # null /\ WithinHitRadius(other, notePos)
      handVel == IF (note.type = "left") = ownOn THEN hands.leftVelocity ELSE hands.rightVelocity
  IN IF note.hit \/ note.missed THEN st
     ELSE IF z > MISS_Z THEN ExpireNote(st, i)
     ELSE IF InHitWindow(z) /\ (ownOn \/ otherOn)
          THEN HitNote(st, i, GoodCut(note, handVel), time)
     ELSE st

\* One iteration of the judgement loop, for position i of the active set.
JudgeNote(st, i, hands, time) ==
  LET note == st.notes[st.active[i]]
      z == currentZ(note, time)
      handPos == IF note.type = "left" THEN hands.left ELSE hands.right
      handVel == IF note.type = "left" THEN hands.leftVelocity ELSE hands.rightVelocity
      notePos == Vec(LANE_X_POSITIONS[note.lineIndex + 1], LAYER_Y_POSITIONS[note.lineLayer + 1], z)
  IN IF note.hit \/ note.missed THEN st
     ELSE IF z > MISS_Z THEN ExpireNote(st, i)
     ELSE IF InHitWindow(z) /\ handPos # null /\ WithinHitRadius(handPos, notePos)
          THEN HitNote(st, i, GoodCut(note, handVel), time)
     ELSE st

\* Variant of the loop that stops at the first note it hits.
RECURSIVE JudgeFirstHitOnly(_, _, _, _)
JudgeFirstHitOnly(st, i, hands, time) ==
  IF i < 1 \/ (\E k \in DOMAIN st.events : st.events[k].kind = "Hit") THEN st
  ELSE JudgeFirstHitOnly(JudgeNote(st, i, hands, time), i - 1, hands, time)

\* for (let i = activeNotesRef.current.length - 1; i >= 0; i--)
RECURSIVE Judge(_, _, _, _)
Judge(st, i, hands, time) ==
  IF i < 1 THEN st ELSE Judge(JudgeNote(st, i, hands, time), i - 1, hands, time)

\* The spawn loop followed by the judgement loop of one playing frame.
FrameOf(notes, active, next, hands, time) ==
  LET sp == Spawn(notes, active, next, time)
      st == [notes |-> notes, active |-> sp.active, events |-> <<>>]
  IN [next |-> sp.next, result |-> Judge(st, Len(sp.active), hands, time)]

\* The frame run on the current chart, active set and cursor.
Frame(hands, time) == FrameOf(chart, activeNotes, nextNoteIndex, hands, time)

\* The number of events of evs that judge note n.
RECURSIVE CountFor(_, _)
CountFor(evs, n) ==
  IF evs = <<>> THEN 0
  ELSE (IF Head(evs).note = n THEN 1 ELSE 0) + CountFor(Tail(evs), n)


\* ---------------------------------------------------------------- actions
\* useMediaPipe reports the camera ready; the effect of lines 331-335 moves
\* LOADING to IDLE, which mounts GameScene.
CameraReady ==
  /\ ~isCameraReady
  /\ isCameraReady' = TRUE
  /\ gameStatus' = IF gameStatus = "LOADING" THEN "IDLE" ELSE gameStatus
  /\ UNCHANGED <<score, combo, multiplier, health, pendingEnd, lossCount, frames>>
  /\ UNCHANGED audioVars
  /\ UNCHANGED sceneVars

\* Variant of the chart reset that also clears the required direction.
ResetChartForgetsDirection(notes) ==
  [i \in DOMAIN notes |-> [notes[i] EXCEPT !.hit = FALSE, !.missed = FALSE, !.cutDirection = ANY]]

\* DEMO_CHART.forEach(n => { n.hit = false; n.missed = false; })
ResetChart(notes) == [i \in DOMAIN notes |-> [notes[i] EXCEPT !.hit = FALSE, !.missed = FALSE]]

\* Variant of startGame without setScore(0).
startGameKeepsScore(playOk) ==
  /\ gameStatus = "IDLE"
  /\ isCameraReady
  /\ pendingEnd = 0
  /\ frames' = 0
  /\ score' = score
  /\ combo' = 0
  /\ multiplier' = 1
  /\ health' = 100
  /\ chart' = ResetChart(chart)
  /\ judged' = [i \in DOMAIN chart |-> 0]
  /\ lossCount' = 0
  /\ lastNow' = NoTime
  /\ sameNow' = FALSE
  /\ audioTime' = 0
  /\ audioEnded' = FALSE
  /\ audioPaused' = IF playOk THEN FALSE ELSE audioPaused
  /\ gameStatus' = IF playOk THEN "PLAYING" ELSE gameStatus
  /\ UNCHANGED <<isCameraReady, pendingEnd, activeNotes, nextNoteIndex, currentTime, events, maxNow>>

\* startGame, from the button of the IDLE menu; playOk is whether
\* audioRef.current.play() resolves.  A click cannot overtake a 0 ms timer
\* queued before the screen that shows the button was rendered.
startGame(playOk) ==
  /\ gameStatus = "IDLE"
  /\ isCameraReady
  /\ pendingEnd = 0
  /\ frames' = 0
  /\ score' = 0
  /\ combo' = 0
  /\ multiplier' = 1
  /\ health' = 100
  /\ chart' = ResetChart(chart)
  /\ judged' = [i \in DOMAIN chart |-> 0]
  /\ lossCount' = 0
  /\ lastNow' = NoTime
  /\ sameNow' = FALSE
  /\ audioTime' = 0
  /\ audioEnded' = FALSE
  /\ audioPaused' = IF playOk THEN FALSE ELSE audioPaused
  /\ gameStatus' = IF playOk THEN "PLAYING" ELSE gameStatus
  /\ UNCHANGED <<isCameraReady, pendingEnd, activeNotes, nextNoteIndex, currentTime, events, maxNow>>

\* audioRef.current.currentTime when the next frame reads it: the clock has
\* advanced by d since the previous frame (d = 0: the clock stood still).
ClockAfter(d) == IF audioTime + d < SongLength THEN audioTime + d ELSE SongLength

\* Variant of TickIdle without the guard on the status: the spawn loop runs.
TickIdleSpawns ==
  /\ gameStatus # "PLAYING"
  /\ events' = <<>>
  /\ nextNoteIndex' = Spawn(chart, activeNotes, nextNoteIndex, audioTime).next
  /\ activeNotes' = Spawn(chart, activeNotes, nextNoteIndex, audioTime).active
  /\ UNCHANGED <<chart, currentTime, judged, lastNow, sameNow, maxNow>>
  /\ UNCHANGED <<isCameraReady, frames>>
  /\ UNCHANGED appVars
  /\ UNCHANGED audioVars

\* useFrame, line 247: not playing, the callback returns.
TickIdle ==
  /\ gameStatus # "PLAYING"
  /\ events' = <<>>
  /\ UNCHANGED <<chart, activeNotes, nextNoteIndex, currentTime, judged, lastNow, sameNow, maxNow>>
  /\ UNCHANGED <<isCameraReady, frames>>
  /\ UNCHANGED appVars
  /\ UNCHANGED audioVars

\* Variant of the ended frame that expires the active notes past MISS_Z
\* before it returns.
TickEndedExpires(d) ==
  /\ gameStatus = "PLAYING"
  /\ ClockAfter(d) = SongLength
  /\ audioTime' = SongLength
  /\ audioEnded' = TRUE
  /\ currentTime' = SongLength
  /\ events' = << [kind |-> "SongEnd", note |-> 0, goodCut |-> FALSE] >>
  /\ endGame(TRUE)
  /\ chart' = [n \in DOMAIN chart |->
                 IF (\E i \in DOMAIN activeNotes : activeNotes[i] = n)
                    /\ currentZ(chart[n], SongLength) > MISS_Z
                 THEN [chart[n] EXCEPT !.missed = TRUE] ELSE chart[n]]
  /\ activeNotes' = SelectSeq(activeNotes, LAMBDA n : currentZ(chart[n], SongLength) <= MISS_Z)
  /\ UNCHANGED <<score, combo, multiplier, health, pendingEnd, lossCount>>
  /\ UNCHANGED <<isCameraReady, frames>>
  /\ UNCHANGED <<nextNoteIndex, judged, lastNow, sameNow, maxNow>>

\* useFrame, lines 249-255: the audio has ended, onSongEnd() and return.
TickEnded(d) ==
  /\ gameStatus = "PLAYING"
  /\ ClockAfter(d) = SongLength
  /\ audioTime' = SongLength
  /\ audioEnded' = TRUE
  /\ currentTime' = SongLength
  /\ events' = << [kind |-> "SongEnd", note |-> 0, goodCut |-> FALSE] >>
  /\ endGame(TRUE)
  /\ UNCHANGED <<score, combo, multiplier, health, pendingEnd, lossCount>>
  /\ UNCHANGED <<isCameraReady, frames>>
  /\ UNCHANGED <<chart, activeNotes, nextNoteIndex, judged, lastNow, sameNow, maxNow>>

\* TRUE iff a hit is followed by a miss in evs: the only batches in which
\* the moment the first updater runs shows in the committed state.
HitThenMiss(evs) ==
  \E i, j \in DOMAIN evs : i < j /\ evs[i].kind = "Hit" /\ evs[j].kind = "Miss"

\* useFrame, lines 249-317, and the App render that commits its setter calls.
TickPlaying(d, hands) ==
  /\ gameStatus = "PLAYING"
  /\ ClockAfter(d) < SongLength
  /\ LET time == ClockAfter(d)
         f == Frame(hands, time)
     IN /\ audioTime' = time
        /\ currentTime' = time
        /\ lastNow' = time
        /\ sameNow' = (time = lastNow)
        /\ maxNow' = IF time > maxNow THEN time ELSE maxNow
        /\ nextNoteIndex' = f.next
        /\ activeNotes' = f.result.active
        /\ chart' = f.result.notes
        /\ events' = f.result.events
        /\ judged' = [i \in DOMAIN chart |-> judged[i] + CountFor(f.result.events, i)]
        /\ \E eager \in BOOLEAN :
             /\ eager => HitThenMiss(f.result.events)
             /\ Render(QueueEvents(EmptyQueue, f.result.events, eager))
  /\ UNCHANGED <<gameStatus, lossCount, isCameraReady, frames>>
  /\ UNCHANGED <<audioEnded, audioPaused>>

\* A timer queued by the health updater fires: endGame(false).
TimeoutEndGame ==
  /\ pendingEnd > 0
  /\ pendingEnd' = pendingEnd - 1
  /\ lossCount' = lossCount + 1
  /\ endGame(FALSE)
  /\ UNCHANGED <<score, combo, multiplier, health>>
  /\ UNCHANGED <<audioTime, audioEnded, isCameraReady, frames>>
  /\ UNCHANGED sceneVars

\* "Reset Installation", line 518: setGameStatus(GameStatus.IDLE).
ResetInstallation ==
  /\ gameStatus \in {"GAME_OVER", "VICTORY"}
  /\ pendingEnd = 0
  /\ gameStatus' = "IDLE"
  /\ UNCHANGED <<score, combo, multiplier, health, pendingEnd, lossCount>>
  /\ UNCHANGED <<isCameraReady, frames>>
  /\ UNCHANGED audioVars
  /\ UNCHANGED sceneVars

Next ==
  \/ CameraReady
  \/ \E playOk \in BOOLEAN : startGame(playOk)
  \/ TickIdle
  \/ \E d \in 0..MaxDelta : TickEnded(d)
  \/ \E d \in 0..MaxDelta, hands \in HandPositions : TickPlaying(d, hands)
  \/ TimeoutEndGame
  \/ ResetInstallation

Spec == Init /\ [][Next]_vars


\* ------------------------------------------------- sessions on any chart
\* The chart the session is played on is the demo chart or a chart without
\* notes.
InitAnyChart ==
  /\ gameStatus = "LOADING"
  /\ score = 0
  /\ combo = 0
  /\ multiplier = 1
  /\ health = 100
  /\ isCameraReady = FALSE
  /\ pendingEnd = 0
  /\ audioTime = 0
  /\ audioEnded = FALSE
  /\ audioPaused = TRUE
  /\ chart \in {<<>>, DEMO_CHART}
  /\ activeNotes = <<>>
  /\ nextNoteIndex = 0
  /\ currentTime = 0
  /\ events = <<>>
  /\ judged = [i \in NoteIds |-> 0]
  /\ lossCount = 0
  /\ lastNow = NoTime
  /\ sameNow = FALSE
  /\ maxNow = NoTime
  /\ frames = 0

SpecAnyChart == InitAnyChart /\ [][Next]_vars

\* ------------------------------------------------- the scene clock alone
\* A playing frame reduced to its clock: it reads the audio clock, anywhere
\* in a song long enough to pass every gate, and calls setCurrentTime.
ClockFrame(time) ==
  /\ gameStatus = "PLAYING"
  /\ time >= audioTime
  /\ audioTime' = time
  /\ currentTime' = time
  /\ UNCHANGED <<audioEnded, audioPaused, isCameraReady, frames>>
  /\ UNCHANGED appVars
  /\ UNCHANGED <<chart, activeNotes, nextNoteIndex, events, judged, lastNow, sameNow, maxNow>>

NextGates ==
  \/ CameraReady
  \/ \E playOk \in BOOLEAN : startGame(playOk)
  \/ \E time \in 0..GateClockMax : ClockFrame(time)

SpecGates == Init /\ [][NextGates]_vars

\* ------------------------------------------- sessions on the chart of ties
InitTieChart ==
  /\ gameStatus = "LOADING"
  /\ score = 0
  /\ combo = 0
  /\ multiplier = 1
  /\ health = 100
  /\ isCameraReady = FALSE
  /\ pendingEnd = 0
  /\ audioTime = 0
  /\ audioEnded = FALSE
  /\ audioPaused = TRUE
  /\ chart = TIE_CHART
  /\ activeNotes = <<>>
  /\ nextNoteIndex = 0
  /\ currentTime = 0
  /\ events = <<>>
  /\ judged = [i \in NoteIds |-> 0]
  /\ lossCount = 0
  /\ lastNow = NoTime
  /\ sameNow = FALSE
  /\ maxNow = NoTime
  /\ frames = 0

SpecTieChart == InitTieChart /\ [][Next]_vars

\* ------------------------------------------- sessions on the longer chart
InitLongChart ==
  /\ gameStatus = "LOADING"
  /\ score = 0
  /\ combo = 0
  /\ multiplier = 1
  /\ health = 100
  /\ isCameraReady = FALSE
  /\ pendingEnd = 0
  /\ audioTime = 0
  /\ audioEnded = FALSE
  /\ audioPaused = TRUE
  /\ chart = LONG_CHART
  /\ activeNotes = <<>>
  /\ nextNoteIndex = 0
  /\ currentTime = 0
  /\ events = <<>>
  /\ judged = [i \in DOMAIN LONG_CHART |-> 0]
  /\ lossCount = 0
  /\ lastNow = NoTime
  /\ sameNow = FALSE
  /\ maxNow = NoTime
  /\ frames = 0

SpecLongChart == InitLongChart /\ [][Next]_vars

\* ------------------------------------- the session of a fresh scene
\* The runs in which the installation is not reset: the scene is mounted
\* once and at most one session is played on it.
NextFirstSession ==
  \/ CameraReady
  \/ \E playOk \in BOOLEAN : startGame(playOk)
  \/ TickIdle
  \/ \E d \in 0..MaxDelta : TickEnded(d)
  \/ \E d \in 0..MaxDelta, hands \in HandPositions : TickPlaying(d, hands)
  \/ TimeoutEndGame

SpecFirstSession == Init /\ [][NextFirstSession]_vars

\* The session of a fresh scene on the longer chart.
SpecLongFirstSession == InitLongChart /\ [][NextFirstSession]_vars

\* ------------------------------------------------- scoring specification
\* The App component driven by the judgement events of arbitrary frames,
\* in sessions that are lost or still running.
\* The reverse scan of the active set, which is ordered by time, calls
\* onNoteHit for the notes in the hit window before onNoteMiss for the
\* expired ones: a frame delivers its hits first, then its misses.
HitEvents(goodCuts) ==
  [i \in DOMAIN goodCuts |-> [kind |-> "Hit", note |-> 0, goodCut |-> goodCuts[i]]]

MissEvents(n) == [i \in 1..n |-> [kind |-> "Miss", note |-> 0, goodCut |-> FALSE]]

\* The hits of one delivered frame share their quality.
GoodCutLists == { [i \in 1..n |-> g] : n \in 0..MaxPerFrame, g \in BOOLEAN }

DeliverFrame(goodCuts, misses) ==
  /\ gameStatus = "PLAYING"
  /\ Len(goodCuts) + misses > 0
  /\ Len(goodCuts) + misses <= MaxPerFrame
  /\ frames < MaxFrames
  /\ frames' = frames + 1
  /\ LET evs == HitEvents(goodCuts) \o MissEvents(misses)
     IN /\ events' = evs
        /\ \E eager \in BOOLEAN :
             /\ eager => HitThenMiss(evs)
             /\ Render(QueueEvents(EmptyQueue, evs, eager))
  /\ UNCHANGED <<gameStatus, lossCount, isCameraReady>>
  /\ UNCHANGED audioVars
  /\ UNCHANGED <<chart, activeNotes, nextNoteIndex, currentTime, judged, lastNow, sameNow, maxNow>>

NextScore ==
  \/ CameraReady
  \/ \E playOk \in BOOLEAN : startGame(playOk)
  \/ \E goodCuts \in GoodCutLists, misses \in 0..MaxPerFrame :
       DeliverFrame(goodCuts, misses)
  \/ TimeoutEndGame
  \/ ResetInstallation

SpecScore == Init /\ [][NextScore]_vars

\* ------------------------------------- sessions without a left-hand sample
\* The hand tracker never reports a left hand; frames keep running and the
\* audio clock keeps advancing while the session is playing.
LeftAbsent == { h \in HandPositions : h.left = null }

NextLeftAbsent ==
  \/ CameraReady
  \/ \E playOk \in BOOLEAN : startGame(playOk)
  \/ TickIdle
  \/ \E d \in 0..MaxDelta : TickEnded(d)
  \/ \E d \in 0..MaxDelta, hands \in LeftAbsent : TickPlaying(d, hands)
  \/ TimeoutEndGame
  \/ ResetInstallation

\* A step of a playing session in which the frame read a later clock than
\* the frame before it.
ClockAdvances == gameStatus = "PLAYING" /\ audioTime' \in (audioTime + 1)..SongLength

SpecLeftAbsent == Init /\ [][NextLeftAbsent]_vars /\ WF_audioTime(ClockAdvances)


\* ----------------------------------------------------------------- claims
InSeq(x, seq) == \E i \in DOMAIN seq : seq[i] = x

Occurrences(x, seq) == Cardinality({i \in DOMAIN seq : seq[i] = x})

Resolved(n) == chart[n].hit \/ chart[n].missed

HasEvent(evs, kind, n) == \E i \in DOMAIN evs : evs[i].kind = kind /\ evs[i].note = n

\* A step of a playing frame: the only step that leaves a playing session playing.
PlayingTick == gameStatus = "PLAYING" /\ gameStatus' = "PLAYING"

C1_State ==
  \A n \in NoteIds :
    /\ ~(chart[n].hit /\ chart[n].missed)
    /\ judged[n] = (IF Resolved(n) THEN 1 ELSE 0)

C1_Step ==
  \/ \E playOk \in BOOLEAN : startGame(playOk)
  \/ \A n \in NoteIds : Resolved(n) => (chart'[n] = chart[n] /\ judged'[n] = judged[n])

\* C1: within a session a note resolves at most once, from pending to
\* exactly one of hit or missed: no note is both hit and missed, a resolved
\* note keeps its outcome (only startGame returns it to pending), and a note
\* has one judgement event when it is resolved and none while it is pending.
C1_OneWayResolution == []C1_State /\ [][C1_Step]_vars

\* C1 witness: in one session a note has been hit and another has been missed.
C1_Witness ==
  \E n, m \in NoteIds : chart[n].hit /\ judged[n] = 1 /\ chart[m].missed /\ judged[m] = 1

\* C2: the spawn cursor never decreases, and an index enters the active set
\* only while the cursor passes it, as a single entry: an index behind the
\* cursor is never appended again.
C2_CursorMonotone ==
  [][ /\ nextNoteIndex' >= nextNoteIndex
      /\ \A n \in NoteIds :
           Occurrences(n, activeNotes') > Occurrences(n, activeNotes)
             => (n > nextNoteIndex /\ n <= nextNoteIndex' /\ Occurrences(n, activeNotes') = 1) ]_vars

\* C2 witness: the cursor has reached the end of the chart in two passes and
\* the note promoted last is active while the first note is already resolved.
C2_Witness ==
  /\ nextNoteIndex = Len(DEMO_CHART)
  /\ InSeq(Len(DEMO_CHART), activeNotes)
  /\ Resolved(1)

Eligible(now) == { n \in NoteIds : chart[n].time - spawnAheadTime <= now }

\* C3: after a playing frame whose clock is not behind any clock read
\* before, the promoted notes (the indices below the cursor) are exactly the
\* notes with note.time - lookahead <= now.
C3_PromotedAreEligible ==
  (lastNow # NoTime /\ lastNow >= maxNow)
    => { n \in NoteIds : n <= nextNoteIndex } = Eligible(lastNow)

\* C3 witness: the frame at the instant the last note becomes eligible has
\* promoted it.
C3_Witness ==
  /\ lastNow = DEMO_CHART[Len(DEMO_CHART)].time - spawnAheadTime
  /\ lastNow >= maxNow
  /\ nextNoteIndex = Len(DEMO_CHART)

LeftNotes == { n \in NoteIds : DEMO_CHART[n].type = "left" }

PendingActive(n) == gameStatus = "PLAYING" /\ InSeq(n, activeNotes) /\ ~Resolved(n)

C4_State ==
  \A n \in LeftNotes :
    /\ ~chart[n].hit
    /\ judged[n] = (IF chart[n].missed THEN 1 ELSE 0)
    /\ lastNow # NoTime =>
         /\ chart[n].missed => currentZ(chart[n], lastNow) > MISS_Z
         /\ PendingActive(n) => currentZ(chart[n], lastNow) <= MISS_Z

\* C4: when no left-hand sample is ever present, a left-hand note is never
\* hit, it is missed exactly when a frame finds it past MISS_Z, with one Miss
\* event, and while frames run and the clock advances every active pending
\* left-hand note is eventually missed.
C4_AbsentHandMisses ==
  /\ []C4_State
  /\ \A n \in LeftNotes : PendingActive(n) ~> chart[n].missed

\* C4 witness: a left-hand note has been missed, with one Miss event, while
\* the session is still playing.
C4_Witness ==
  \E n \in LeftNotes : chart[n].missed /\ judged[n] = 1 /\ gameStatus = "PLAYING"

\* The frame at clock time with sample hands resolves to a good hit every
\* active pending ANY note that is in the hit window with its hand in
\* radius at speed >= 1.5.
GoodHitsOf(hands, time) ==
  LET sp == Spawn(chart, activeNotes, nextNoteIndex, time)
      f == Frame(hands, time)
  IN \A i \in DOMAIN sp.active :
       LET n == sp.active[i]
           note == chart[n]
           z == currentZ(note, time)
           handPos == IF note.type = "left" THEN hands.left ELSE hands.right
           handVel == IF note.type = "left" THEN hands.leftVelocity ELSE hands.rightVelocity
           notePos == Vec(LANE_X_POSITIONS[note.lineIndex + 1], LAYER_Y_POSITIONS[note.lineLayer + 1], z)
       IN ( /\ ~Resolved(n)
            /\ note.cutDirection = ANY
            /\ InHitWindow(z)
            /\ handPos # null
            /\ WithinHitRadius(handPos, notePos)
            /\ Dot(handVel, handVel) >= 15 * 15 )
          => ( /\ f.result.notes[n].hit
               /\ ~f.result.notes[n].missed
               /\ \E k \in DOMAIN f.result.events :
                    f.result.events[k] = [kind |-> "Hit", note |-> n, goodCut |-> TRUE] )

\* C5: in a playing frame an active pending note with cutDirection ANY that
\* is inside the hit window, with its assigned hand present within the hit
\* radius at speed >= 1.5, is resolved to hit in that frame and Hit(note,
\* good) is emitted, for every clock value and hand sample the frame can read.
C5_AnyDirectionGoodHit ==
  gameStatus = "PLAYING" =>
    \A d \in 0..MaxDelta, hands \in HandPositions :
      ClockAfter(d) < SongLength => GoodHitsOf(hands, ClockAfter(d))

\* C5 witness: the last frame emitted a good hit of a note with cutDirection ANY.
C5_Witness ==
  \E k \in DOMAIN events :
    /\ events[k].kind = "Hit"
    /\ events[k].goodCut
    /\ chart[events[k].note].cutDirection = ANY
    /\ chart[events[k].note].hit

\* C6: after a frame that delivered a miss event, combo is 0 and multiplier is 1.
C6_MissResetsComboAndMultiplier ==
  (\E k \in DOMAIN events : events[k].kind = "Miss") => (combo = 0 /\ multiplier = 1)

\* C7: in every reachable state health is within 0..100.
C7_HealthInRange == health \in 0..100

\* C7 witness: misses have taken health down to the floor.
C7_Witness ==
  /\ health = 0
  /\ \E k \in DOMAIN events : events[k].kind = "Miss"

\* C8: endGame(false) is called at most once per session.
C8_LossTriggeredOnce == lossCount <= 1

SameNowTick == PlayingTick /\ lastNow' = lastNow

\* A frame repeated on its own result, with the same clock and the same hand
\* sample, promotes nothing and emits nothing.
RepeatIsSilent(hands, time) ==
  LET f == Frame(hands, time)
      g == FrameOf(f.result.notes, f.result.active, f.next, hands, time)
  IN g.next = f.next /\ g.result.events = <<>> /\ g.result = [f.result EXCEPT !.events = <<>>]

C9_State ==
  gameStatus = "PLAYING" =>
    \A d \in 0..MaxDelta, hands \in HandPositions :
      ClockAfter(d) < SongLength => RepeatIsSilent(hands, ClockAfter(d))

C9_Step ==
  SameNowTick =>
    /\ nextNoteIndex' = nextNoteIndex
    /\ \A k \in DOMAIN events' :
         /\ events'[k].kind = "Hit"
         /\ InSeq(events'[k].note, activeNotes)
         /\ ~Resolved(events'[k].note)

\* C9 (as stated): a playing frame that reads the same clock as the previous
\* one promotes no note and emits no Hit or Miss event.
C9_SameNowSilent ==
  [][SameNowTick => (nextNoteIndex' = nextNoteIndex /\ events' = <<>>)]_vars

\* C9 (amended): a playing frame that reads the same clock as the previous
\* one promotes no note and emits no Miss; it can emit only the Hit of a note
\* the previous frame left active and pending, and with the hand sample of
\* the previous frame it emits nothing.
C9_SameNowNoSpawnNoMiss == []C9_State /\ [][C9_Step]_vars

\* C9 witness: a frame read the same clock as the frame before it and
\* emitted a Hit.
C9_Witness == sameNow /\ events # <<>> /\ gameStatus = "PLAYING"

\* The step function of the combo: 1 for 0..10, 2 for 11..20, 4 for 21..30,
\* 8 from 31.
StepOfCombo(c) == IF c >= 31 THEN 8 ELSE IF c >= 21 THEN 4 ELSE IF c >= 11 THEN 2 ELSE 1

\* C10: in every reachable state the multiplier is the step function of the combo.
C10_MultiplierIsStepOfCombo == multiplier = StepOfCombo(combo)

\* The points a frame owes for its events when every hit is paid at the
\* multiplier of the combo it reaches, starting from combo c.
RECURSIVE PointsOwed(_, _)
PointsOwed(evs, c) ==
  IF evs = <<>> THEN 0
  ELSE IF Head(evs).kind = "Hit"
       THEN (IF Head(evs).goodCut THEN 150 ELSE 100) * StepOfCombo(c + 1)
            + PointsOwed(Tail(evs), c + 1)
       ELSE PointsOwed(Tail(evs), 0)

\* C11: a frame increases the score, for each of its hits, by the base
\* points (100, or 150 for a good hit) times the multiplier of the combo that
\* hit reaches.
C11_HitPaidAtReachedMultiplier ==
  [][PlayingTick => score' = score + PointsOwed(events', combo)]_vars

C12_State == gameStatus = "VICTORY" => health > 0

C12_Step ==
  /\ gameStatus = "GAME_OVER" => gameStatus' # "VICTORY"
  /\ gameStatus = "VICTORY" => gameStatus' # "GAME_OVER"
  /\ gameStatus' = "VICTORY" => (gameStatus \in {"PLAYING", "VICTORY"} /\ audioEnded')

\* C12: a session ends in VICTORY only when a playing frame observes the
\* ended signal and only with health still positive; a lost session never
\* becomes a victory and a victory never becomes a loss.
C12_VictoryOnlyWithHealth == []C12_State /\ [][C12_Step]_vars

\* What the frame at clock time with sample hands does to the active pending
\* notes in the hit window, for a hit test that accepts the squared distances
\* below limit: a note whose hand is present within the limit is resolved to
\* hit, whatever the hand velocity, and every other one is left pending.
DistanceDecides(hands, time, limit) ==
  LET sp == Spawn(chart, activeNotes, nextNoteIndex, time)
      f == Frame(hands, time)
  IN \A i \in DOMAIN sp.active :
       LET n == sp.active[i]
           note == chart[n]
           z == currentZ(note, time)
           handPos == IF note.type = "left" THEN hands.left ELSE hands.right
           notePos == Vec(LANE_X_POSITIONS[note.lineIndex + 1], LAYER_Y_POSITIONS[note.lineLayer + 1], z)
           delta == Vec(handPos[1] - notePos[1], handPos[2] - notePos[2], handPos[3] - notePos[3])
           reached == handPos # null /\ Dot(delta, delta) < limit
       IN (~Resolved(n) /\ InHitWindow(z))
          => /\ reached => (f.result.notes[n].hit /\ HasEvent(f.result.events, "Hit", n))
             /\ ~reached => (~f.result.notes[n].hit /\ ~f.result.notes[n].missed
                             /\ InSeq(n, f.result.active))

\* C13 (as stated): an active pending note in the hit window is resolved to
\* hit iff its hand sample is present at a distance not exceeding 0.8.
C13_HitWithinOrAtRadius ==
  gameStatus = "PLAYING" =>
    \A d \in 0..MaxDelta, hands \in HandPositions :
      ClockAfter(d) < SongLength => DistanceDecides(hands, ClockAfter(d), 8 * 8 + 1)

\* C13 (amended): an active pending note in the hit window is resolved to
\* hit, whatever the hand velocity, iff its hand sample is present at a
\* distance below 0.8; at a distance of 0.8 or more it stays pending.
C13_HitBelowRadius ==
  gameStatus = "PLAYING" =>
    \A d \in 0..MaxDelta, hands \in HandPositions :
      ClockAfter(d) < SongLength => DistanceDecides(hands, ClockAfter(d), 8 * 8)

\* C13 witness: the last frame emitted a weak hit.
C13_Witness ==
  \E k \in DOMAIN events : events[k].kind = "Hit" /\ ~events[k].goodCut /\ chart[events[k].note].hit

\* The resolution of every note (hit or missed, and the quality of each hit)
\* after the frames of a schedule.
Outcome(notes, goodHits) ==
  [n \in DOMAIN notes |->
     IF notes[n].hit THEN (IF n \in goodHits THEN "good" ELSE "weak")
     ELSE IF notes[n].missed THEN "missed" ELSE "pending"]

GoodHitsIn(evs) == { evs[k].note : k \in { j \in DOMAIN evs : evs[j].kind = "Hit" /\ evs[j].goodCut } }

\* From the current state, with the hand showing sample h1 at clock now + 1
\* and sample h2 at clock now + 2: the schedule with frames at now + 1 and
\* now + 2 and the schedule with one frame at now + 2 resolve every note alike.
SchedulesAgree(h1, h2) ==
  LET a1 == FrameOf(chart, activeNotes, nextNoteIndex, h1, audioTime + 1)
      a2 == FrameOf(a1.result.notes, a1.result.active, a1.next, h2, audioTime + 2)
      b2 == FrameOf(chart, activeNotes, nextNoteIndex, h2, audioTime + 2)
  IN Outcome(a2.result.notes, GoodHitsIn(a1.result.events) \union GoodHitsIn(a2.result.events))
       = Outcome(b2.result.notes, GoodHitsIn(b2.result.events))

\* C14: for the same chart and the same hand samples as a function of the
\* clock, two schedules of frames that reach the same clock resolve every
\* note to the same outcome.
C14_FrameRateIndependent ==
  (gameStatus = "PLAYING" /\ audioTime + 2 < SongLength) =>
    \A h1, h2 \in HandPositions : SchedulesAgree(h1, h2)

\* C15: after startGame every note is pending: neither hit nor missed, and
\* no resolution time kept from the previous session.
C15_RestartResetsChart ==
  [][(\E playOk \in BOOLEAN : startGame(playOk)) =>
       \A n \in NoteIds : ~chart'[n].hit /\ ~chart'[n].missed /\ chart'[n].hitTime = NoTime]_vars

\* C16: a step taken while the session is not playing, other than startGame,
\* leaves the cursor, the active set and every note's resolution state
\* unchanged and emits no Hit, Miss or song-end event.
C16_NotPlayingIsNoOp ==
  [][(gameStatus # "PLAYING" /\ ~(\E playOk \in BOOLEAN : startGame(playOk))) =>
       /\ nextNoteIndex' = nextNoteIndex
       /\ activeNotes' = activeNotes
       /\ chart' = chart
       /\ events' \in {events, <<>>}]_vars

\* C16 witness: a frame ran after the session ended and emitted nothing.
C16_Witness ==
  gameStatus \in {"VICTORY", "GAME_OVER"} /\ events = <<>> /\ nextNoteIndex > 0

\* TRUE iff evs holds a judgement (a Hit or a Miss).
HasJudgement(evs) == \E k \in DOMAIN evs : evs[k].kind \in {"Hit", "Miss"}

C17_State ==
  chart = <<>> =>
    /\ ~HasJudgement(events)
    /\ score = 0
    /\ health = 100
    /\ pendingEnd = 0
    /\ gameStatus # "GAME_OVER"

C17_Step ==
  (chart = <<>> /\ gameStatus = "PLAYING") =>
    /\ gameStatus' \in {"PLAYING", "VICTORY"}
    /\ audioEnded' => gameStatus' = "VICTORY"
    /\ audioTime' = SongLength => gameStatus' = "VICTORY"

\* C17: on a chart without notes a session emits no judgement, keeps score 0
\* and health 100, is never lost, and the frame that sees the clock ended
\* ends it in VICTORY.
C17_EmptyChartVictory == []C17_State /\ [][C17_Step]_vars

\* C17 witness: a session on the empty chart has ended in VICTORY.
C17_Witness ==
  chart = <<>> /\ gameStatus = "VICTORY" /\ audioEnded /\ score = 0 /\ health = 100

\* A chart that differs from notes in the tier and the axis of every note,
\* and in nothing else.
OtherAxis(axis) ==
  CASE axis = "INSTITUTION" -> "ACADEMIC"
    [] axis = "ACADEMIC" -> "DISCOURSE"
    [] axis = "DISCOURSE" -> "NETWORK"
    [] OTHER -> "INSTITUTION"

Retiered(notes) ==
  [i \in DOMAIN notes |-> [notes[i] EXCEPT !.tier = (@ % 3) + 1, !.axis = OtherAxis(@)]]

\* The frame at clock time with sample hands emits the same events and
\* leaves the same cursor, active set and resolution fields on the chart
\* and on the re-tiered chart.
SameJudgement(hands, time) ==
  LET f == FrameOf(chart, activeNotes, nextNoteIndex, hands, time)
      g == FrameOf(Retiered(chart), activeNotes, nextNoteIndex, hands, time)
  IN /\ g.result.events = f.result.events
     /\ g.next = f.next
     /\ g.result.active = f.result.active
     /\ g.result.notes = Retiered(f.result.notes)

\* C18: two runs over charts that differ only in tier and axis, with the
\* same frames and hand samples, produce the same judgement events: from
\* every state of a playing session every frame judges both charts alike.
C18_TierAxisNoInfluence ==
  gameStatus = "PLAYING" =>
    \A d \in 0..MaxDelta, hands \in HandPositions :
      ClockAfter(d) < SongLength => SameJudgement(hands, ClockAfter(d))

\* C18 witness: the last frame judged notes of two tiers, one hit with a
\* slow hand and one missed.
C18_Witness ==
  \E j, k \in DOMAIN events :
    /\ events[j].kind = "Hit" /\ ~events[j].goodCut
    /\ events[k].kind = "Miss"
    /\ chart[events[j].note].tier # chart[events[k].note].tier

\* The score committed by the render after one handleNoteHit(note, goodCut).
ScoreAfterHit(note, goodCut) ==
  RenderScore(score, handleNoteHit(EmptyQueue, note, goodCut, FALSE).score)

\* C19: for the same quality and the same multiplier, the hit of a tier-1
\* note awards more points than the hit of a tier-3 note.
C19_TierWeighsScore ==
  gameStatus = "PLAYING" =>
    \A a, b \in DOMAIN chart, goodCut \in BOOLEAN :
      (chart[a].tier = 1 /\ chart[b].tier = 3) =>
        ScoreAfterHit(a, goodCut) > ScoreAfterHit(b, goodCut)

\* The fields of a note set at chart generation.
Descriptor(note) ==
  [id |-> note.id, time |-> note.time, lineIndex |-> note.lineIndex,
   lineLayer |-> note.lineLayer, type |-> note.type,
   cutDirection |-> note.cutDirection, tier |-> note.tier, axis |-> note.axis]

\* C20: no step (no frame, no restart) changes the number of notes or a
\* note's id, time, lineIndex, lineLayer, type, cutDirection, tier or axis.
C20_DescriptorsImmutable ==
  [][/\ DOMAIN chart' = DOMAIN chart
     /\ \A n \in DOMAIN chart : Descriptor(chart'[n]) = Descriptor(chart[n])]_vars

\* C20 witness: frames resolved notes, one of them the directional note, and
\* a restart then reset the chart.
C20_Witness ==
  /\ gameStatus = "PLAYING"
  /\ \E n \in DOMAIN chart :
       /\ chart[n].cutDirection # ANY
       /\ ~chart[n].hit /\ ~chart[n].missed
       /\ chart[n].hitTime # NoTime

\* The ids of the gates of a sequence.
GateIds(gates) == { gates[k].id : k \in DOMAIN gates }

\* C21 (as stated): the visible gates are exactly the gates with
\* gate.time - 10 <= now <= gate.time + 5, both ends included.
C21_VisibleClosedWindow ==
  GateIds(visibleGates(currentTime)) =
    { GATES[k].id : k \in { j \in DOMAIN GATES :
        GATES[j].time - 120 <= currentTime /\ currentTime <= GATES[j].time + 60 } }

\* C21 (amended): the visible gates are exactly the gates with
\* gate.time - 10 < now < gate.time + 5, both ends excluded, in the order
\* of GATES and without repetition.
C21_VisibleOpenWindow ==
  /\ GateIds(visibleGates(currentTime)) =
       { GATES[k].id : k \in { j \in DOMAIN GATES :
           GATES[j].time - 120 < currentTime /\ currentTime < GATES[j].time + 60 } }
  /\ \A j, k \in DOMAIN visibleGates(currentTime) :
       j < k => visibleGates(currentTime)[j].id < visibleGates(currentTime)[k].id

\* C21 witness: the clock stands at the far end of the window of the gates
\* of 34 s, and they are no longer shown.
C21_Witness ==
  gameStatus = "PLAYING" /\ currentTime = 34 * 12 + 60 /\ visibleGates(currentTime) = <<>>

\* The hand sample assigned to a note, and the note's position at clock time.
AssignedHand(note, hands) == IF note.type = "left" THEN hands.left ELSE hands.right

NotePosition(note, time) ==
  Vec(LANE_X_POSITIONS[note.lineIndex + 1], LAYER_Y_POSITIONS[note.lineLayer + 1], currentZ(note, time))

\* TRUE iff the hand assigned to note n is within the hit radius of the
\* note at clock time.
HandOnNote(n, hands, time) ==
  /\ AssignedHand(chart[n], hands) # null
  /\ WithinHitRadius(AssignedHand(chart[n], hands), NotePosition(chart[n], time))

\* The frame at clock time expires every active pending note that is past
\* MISS_Z: missed, removed, one Miss event, no Hit event.
ExpiryDecides(hands, time) ==
  LET f == Frame(hands, time).result
  IN \A n \in NoteIds :
       (InSeq(n, activeNotes) /\ ~Resolved(n) /\ currentZ(chart[n], time) > MISS_Z) =>
         /\ f.notes[n].missed /\ ~f.notes[n].hit
         /\ ~InSeq(n, f.active)
         /\ Cardinality({k \in DOMAIN f.events : f.events[k].note = n}) = 1
         /\ HasEvent(f.events, "Miss", n)

C22_State ==
  gameStatus = "PLAYING" =>
    \A d \in 0..MaxDelta, hands \in HandPositions :
      ClockAfter(d) < SongLength => ExpiryDecides(hands, ClockAfter(d))

C22_Step == \A n \in NoteIds : chart[n].missed => (~chart'[n].hit /\ ~HasEvent(events', "Hit", n))

\* C22: a frame in which an active pending note is past the miss threshold
\* marks it missed, removes it and emits its Miss event, whether or not its
\* hand is within the hit radius; a missed note is not hit afterwards.
C22_ExpiryBeforeHit == []C22_State /\ [][C22_Step]_vars

\* C22 witness: the hand stood on a note past the miss threshold; the last
\* frame missed that note.
C22_Witness ==
  \E n \in NoteIds, hands \in HandPositions :
    /\ HasEvent(events, "Miss", n) /\ chart[n].missed /\ ~InSeq(n, activeNotes)
    /\ currentZ(chart[n], currentTime) > MISS_Z
    /\ HandOnNote(n, hands, currentTime)

\* The frame at clock time leaves every pending note whose position is
\* outside the hit window and not past MISS_Z as it is, and every note it
\* hits is inside the window.
WindowDecides(hands, time) ==
  LET f == Frame(hands, time).result
  IN \A n \in NoteIds :
       LET z == currentZ(chart[n], time)
       IN /\ HasEvent(f.events, "Hit", n) => (z > PLAYER_Z - 15 /\ z < PLAYER_Z + 10)
          /\ (~Resolved(n) /\ (z <= PLAYER_Z - 15 \/ (z >= PLAYER_Z + 10 /\ z <= MISS_Z))) =>
               (f.notes[n] = chart[n] /\ (InSeq(n, activeNotes) => InSeq(n, f.active)))

C23_HitTimesInWindow ==
  \A n \in NoteIds :
    chart[n].hit =>
      LET z == currentZ(chart[n], chart[n].hitTime)
      IN z > PLAYER_Z - 15 /\ z < PLAYER_Z + 10

\* C23: a note is hit only in a frame where its position lies strictly
\* inside the hit window: every hit note has its resolution time inside the
\* window around note.time, and a frame leaves a pending note outside the
\* window (before it, or between it and the miss threshold) pending,
\* whatever the hand samples.
C23_HitOnlyInWindow ==
  /\ C23_HitTimesInWindow
  /\ gameStatus = "PLAYING" =>
       \A d \in 0..MaxDelta, hands \in HandPositions :
         ClockAfter(d) < SongLength => WindowDecides(hands, ClockAfter(d))

\* C23 witness: a note was hit before its time, and the last frame left
\* pending an active note that has passed the window although a hand sample
\* stands on it.
C23_Witness ==
  /\ \E n \in NoteIds : chart[n].hit /\ chart[n].hitTime < chart[n].time
  /\ \E m \in NoteIds, hands \in HandPositions :
       /\ gameStatus = "PLAYING" /\ InSeq(m, activeNotes) /\ ~Resolved(m)
       /\ currentZ(chart[m], currentTime) >= PLAYER_Z + 10
       /\ HandOnNote(m, hands, currentTime)

\* The hand sample of the side a note is not assigned to.
OtherHand(note, hands) == IF note.type = "left" THEN hands.right ELSE hands.left

\* The frame at clock time hits a note only when the note's own hand is
\* present within the radius, and leaves a pending note that is not past
\* MISS_Z pending when its own hand has no sample.
OwnHandDecides(hands, time) ==
  LET f == Frame(hands, time).result
  IN \A n \in NoteIds :
       /\ HasEvent(f.events, "Hit", n) => HandOnNote(n, hands, time)
       /\ (~Resolved(n) /\ AssignedHand(chart[n], hands) = null
             /\ currentZ(chart[n], time) <= MISS_Z) =>
            (f.notes[n] = chart[n] /\ (InSeq(n, activeNotes) => InSeq(n, f.active)))

\* C24: a note is hit only by its assigned hand, present within the radius;
\* the other hand never resolves it, and with no sample of the assigned
\* hand the note stays pending in that frame.
C24_OnlyAssignedHand ==
  gameStatus = "PLAYING" =>
    \A d \in 0..MaxDelta, hands \in HandPositions :
      ClockAfter(d) < SongLength => OwnHandDecides(hands, ClockAfter(d))

\* C24 witness: an active note is still pending inside the hit window after
\* a frame, and a sample has only the other hand, standing on it.
C24_Witness ==
  \E n \in NoteIds, hands \in HandPositions :
    /\ gameStatus = "PLAYING" /\ InSeq(n, activeNotes) /\ ~Resolved(n)
    /\ lastNow = currentTime /\ InHitWindow(currentZ(chart[n], currentTime))
    /\ AssignedHand(chart[n], hands) = null
    /\ OtherHand(chart[n], hands) # null
    /\ WithinHitRadius(OtherHand(chart[n], hands), NotePosition(chart[n], currentTime))

\* speed >= 1.5, and the normalized velocity has dot product >= 0.3 with the
\* unit vector dir (compared on the squares; the zero velocity has dot 0).
FastEnough(handVel) == Dot(handVel, handVel) >= 15 * 15

AlignedWith(handVel, dir) ==
  Dot(handVel, dir) > 0 /\ 100 * Dot(handVel, dir) * Dot(handVel, dir) >= 9 * Dot(handVel, handVel)

\* Every Hit event of the frame at clock time is good iff the hand is fast
\* enough and, for a note with a required direction, aligned with it.
QualityDecides(hands, time) ==
  LET f == Frame(hands, time).result
  IN \A k \in DOMAIN f.events :
       f.events[k].kind = "Hit" =>
         LET note == chart[f.events[k].note]
             handVel == IF note.type = "left" THEN hands.leftVelocity ELSE hands.rightVelocity
         IN f.events[k].goodCut <=>
              /\ FastEnough(handVel)
              /\ note.cutDirection # ANY => AlignedWith(handVel, DIRECTION_VECTORS(note.cutDirection))

\* C25: a hit is good iff the hand speed is >= 1.5 and, when the note
\* requires a direction, the normalized hand velocity has dot product >= 0.3
\* with it; a note with direction ANY needs only the speed; otherwise the
\* hit is weak.
C25_QualityRule ==
  gameStatus = "PLAYING" =>
    \A d \in 0..MaxDelta, hands \in HandPositions :
      ClockAfter(d) < SongLength => QualityDecides(hands, ClockAfter(d))

\* C25 witness: the directional note was hit weak in the last frame and an
\* ANY note was hit good earlier in the session.
C25_Witness ==
  /\ \E k \in DOMAIN events :
       /\ events[k].kind = "Hit" /\ ~events[k].goodCut
       /\ chart[events[k].note].cutDirection # ANY
  /\ \E n \in NoteIds : chart[n].hit /\ chart[n].cutDirection = ANY
  /\ score >= 150 + 100

C26_State == \A i \in DOMAIN activeNotes : ~Resolved(activeNotes[i])

C26_Step ==
  PlayingTick =>
    \A n \in NoteIds :
      /\ HasEvent(events', "Hit", n) <=> (~chart[n].hit /\ chart'[n].hit)
      /\ HasEvent(events', "Hit", n) =>
           /\ chart'[n].hitTime = audioTime'
           /\ ~chart'[n].missed
           /\ ~InSeq(n, activeNotes')
           /\ Cardinality({k \in DOMAIN events' : events'[k].note = n}) = 1

\* C26: a frame that hits a note marks it hit with the frame's clock as
\* resolution time, removes it from the active set and emits one Hit event
\* for it; the active set holds only pending notes.
C26_HitBookkeeping == []C26_State /\ [][C26_Step]_vars

\* C26 witness: the last frame hit a note and left other notes active.
C26_Witness ==
  /\ gameStatus = "PLAYING" /\ activeNotes # <<>>
  /\ \E n \in NoteIds :
       HasEvent(events, "Hit", n) /\ chart[n].hit /\ chart[n].hitTime = currentTime

\* The position of x in a sequence without repetition.
PosIn(seq, x) == CHOOSE i \in DOMAIN seq : seq[i] = x

\* The active pending notes, after the spawn loop, that are in the hit
\* window at clock time with their own hand within the radius.
Qualifying(hands, time) ==
  LET active == Spawn(chart, activeNotes, nextNoteIndex, time).active
  IN { n \in DOMAIN chart :
         /\ InSeq(n, active) /\ ~Resolved(n)
         /\ currentZ(chart[n], time) <= MISS_Z
         /\ InHitWindow(currentZ(chart[n], time))
         /\ HandOnNote(n, hands, time) }

\* The frame at clock time hits every qualifying note, and its events
\* follow the active set in reverse.
AllQualifyingHit(hands, time) ==
  LET active == Spawn(chart, activeNotes, nextNoteIndex, time).active
      f == Frame(hands, time).result
  IN /\ \A n \in Qualifying(hands, time) : f.notes[n].hit /\ HasEvent(f.events, "Hit", n)
     /\ \A j, k \in DOMAIN f.events :
          j < k => PosIn(active, f.events[j].note) > PosIn(active, f.events[k].note)

\* C27: when several active notes satisfy the spatial test for the same
\* hand in one frame, all of them are hit in that frame, and the events of a
\* frame are emitted in the reverse of the active-set order.
C27_AllTiedNotesHit ==
  gameStatus = "PLAYING" =>
    \A d \in 0..MaxDelta, hands \in HandPositions :
      ClockAfter(d) < SongLength => AllQualifyingHit(hands, ClockAfter(d))

\* C27 witness: the last frame hit three notes of the left hand, the most
\* recently promoted first.
C27_Witness ==
  /\ Len(events) = 3
  /\ \A k \in DOMAIN events : events[k].kind = "Hit" /\ chart[events[k].note].type = "left"
  /\ events[1].note > events[2].note /\ events[2].note > events[3].note

\* TRUE iff note n of the chart is, at clock time, between the spawn plane
\* and the miss threshold.
InFlight(n, time) ==
  currentZ(chart[n], time) >= SPAWN_Z /\ currentZ(chart[n], time) <= MISS_Z

\* C28: after every playing frame every note of the active set lies
\* between the spawn plane and the miss threshold, in every session.
C28_ActiveNotesInFlight ==
  [][PlayingTick => \A i \in DOMAIN activeNotes' : InFlight(activeNotes'[i], audioTime')]_vars

\* The session has ended.
SessionOver == gameStatus \in {"GAME_OVER", "VICTORY"}

C29_State == SessionOver => activeNotes = <<>>

C29_Step ==
  SessionOver =>
    \A n \in DOMAIN chart :
      /\ chart'[n].hit = chart[n].hit
      /\ chart'[n].missed = chart[n].missed
      /\ chart'[n].hitTime = chart[n].hitTime

\* C29: once the session has ended the active set is empty, and no later
\* step changes a note's resolution fields.
C29_EndDiscardsActiveSet == []C29_State /\ [][C29_Step]_vars

\* A step of startGame that starts a session.
SessionStarts == (\E playOk \in BOOLEAN : startGame(playOk)) /\ gameStatus' = "PLAYING"

\* C30: a session started by startGame begins with the spawn cursor at the
\* start of the chart and an empty active set, and after each of its frames
\* every pending note whose time minus the lookahead has been reached is in
\* the active set, so that it is judged in the session.
C30_RestartStarvesNoNote ==
  [][/\ SessionStarts => (nextNoteIndex' = 0 /\ activeNotes' = <<>>)
     /\ PlayingTick =>
          \A n \in DOMAIN chart :
            (chart'[n].time - spawnAheadTime <= audioTime' /\ ~chart'[n].hit /\ ~chart'[n].missed)
              => InSeq(n, activeNotes')]_vars

\* C31: in the session of a freshly mounted scene, a note below the cursor
\* is either pending in the active set or resolved and out of it, a note at
\* or above the cursor is pending and out of the active set, and no note is
\* in the active set twice.
C31_PromotedNotesConserved ==
  \A n \in NoteIds :
    /\ n <= nextNoteIndex =>
         \/ InSeq(n, activeNotes) /\ ~Resolved(n)
         \/ Resolved(n) /\ ~InSeq(n, activeNotes)
    /\ n > nextNoteIndex => (~Resolved(n) /\ ~InSeq(n, activeNotes))
    /\ Occurrences(n, activeNotes) <= 1

\* C31 witness: after a frame that passed the cursor over the whole chart
\* one note is hit, one is missed and one is still active.
C31_Witness ==
  /\ gameStatus = "PLAYING" /\ lastNow # NoTime /\ nextNoteIndex = Len(chart)
  /\ \E a, b, c \in NoteIds :
       /\ chart[a].hit /\ chart[b].missed
       /\ InSeq(c, activeNotes) /\ ~Resolved(c)

\* Every Hit event of the last frame precedes every Miss event of it.
HitsBeforeMisses ==
  \A j, k \in DOMAIN events :
    (events[j].kind = "Hit" /\ events[k].kind = "Miss") => j < k

\* C32: in a frame every Hit event is emitted before every Miss event, so
\* after a frame that emitted a Miss the combo is 0 and the multiplier is 1.
C32_HitsBeforeMissesThenReset ==
  /\ HitsBeforeMisses
  /\ (\E k \in DOMAIN events : events[k].kind = "Miss") => (combo = 0 /\ multiplier = 1)

\* C33: once a miss has brought health to 0, score, combo and health do not
\* change again until the next startGame.
C33_NoScoringAfterLoss ==
  [][(health = 0 /\ ~(\E playOk \in BOOLEAN : startGame(playOk))) =>
       (score' = score /\ combo' = combo /\ health' = health)]_vars

\* The step of the frame that observes audio.ended.
EndedTick == gameStatus = "PLAYING" /\ audioEnded'

\* C34: the frame that observes the ended signal calls onSongEnd and
\* returns: it promotes no note, resolves none and emits no Hit or Miss, so
\* the pending notes of the active set stay pending.
C34_EndedTickJudgesNothing ==
  [][EndedTick =>
       /\ nextNoteIndex' = nextNoteIndex
       /\ activeNotes' = activeNotes
       /\ chart' = chart
       /\ ~HasJudgement(events')
       /\ \E k \in DOMAIN events' : events'[k].kind = "SongEnd"
       /\ gameStatus' = "VICTORY"]_vars

\* C34 witness: the song has ended with a pending note in the active set
\* that is past the miss threshold at the final clock.
C34_Witness ==
  /\ gameStatus = "VICTORY" /\ audioEnded
  /\ events = << [kind |-> "SongEnd", note |-> 0, goodCut |-> FALSE] >>
  /\ \E i \in DOMAIN activeNotes :
       /\ ~chart[activeNotes[i]].hit /\ ~chart[activeNotes[i]].missed
       /\ currentZ(chart[activeNotes[i]], audioTime) > MISS_Z

\* The number of Hit events of evs.
HitCount(evs) == Cardinality({k \in DOMAIN evs : evs[k].kind = "Hit"})

C35_Step ==
  \/ \E playOk \in BOOLEAN : startGame(playOk)
  \/ /\ score' >= score
     /\ (gameStatus = "PLAYING" /\ frames' # frames) =>
          /\ HitCount(events') = 0 => score' = score
          /\ HitCount(events') > 0 => score' >= score + 100 * HitCount(events')

\* C35: the score never decreases during a session: a frame of misses
\* leaves it unchanged, every hit adds a positive amount, and only
\* startGame returns it to 0.
C35_ScoreNeverDecreases == [](score >= 0) /\ [][C35_Step]_vars

\* C35 witness: a frame of misses has left a positive score as it was.
C35_Witness ==
  /\ gameStatus = "PLAYING" /\ score > 0 /\ combo = 0 /\ health < 100
  /\ events # <<>> /\ HitCount(events) = 0

\* The changes of status the claim allows.
AllowedStatusChanges ==
  { <<"LOADING", "IDLE">>, <<"IDLE", "PLAYING">>,
    <<"PLAYING", "GAME_OVER">>, <<"PLAYING", "VICTORY">>,
    <<"GAME_OVER", "IDLE">>, <<"VICTORY", "IDLE">> }

\* C36: the status changes only along LOADING -> IDLE, IDLE -> PLAYING (the
\* camera ready and the playback started), PLAYING -> GAME_OVER,
\* PLAYING -> VICTORY and GAME_OVER or VICTORY -> IDLE.
C36_StatusTransitions ==
  [][gameStatus' # gameStatus =>
       /\ <<gameStatus, gameStatus'>> \in AllowedStatusChanges
       /\ gameStatus' = "IDLE" /\ gameStatus = "LOADING" => isCameraReady'
       /\ gameStatus' = "PLAYING" => (isCameraReady /\ ~audioPaused')]_vars

\* C37: whenever the status becomes PLAYING the scoring state is the
\* initial one: score 0, combo 0, multiplier 1, health 100.
C37_FreshScoringOnPlaying ==
  [][(gameStatus # "PLAYING" /\ gameStatus' = "PLAYING") =>
       (score' = 0 /\ combo' = 0 /\ multiplier' = 1 /\ health' = 100)]_vars

\* C37 witness: a session has just started on a chart that carries the hit
\* times of an earlier session.
C37_Witness ==
  /\ gameStatus = "PLAYING" /\ lastNow = NoTime /\ audioTime = 0
  /\ score = 0 /\ combo = 0 /\ multiplier = 1 /\ health = 100
  /\ \E n \in NoteIds : chart[n].hitTime # NoTime

====
